---- MODULE Spec2Model ----
(***************************************************************************)
(* Model of metagpt/actions/project_management.py (WriteTasks, the         *)
(* incremental task pipeline) and of the block / fence parsers of          *)
(* metagpt/utils/common.py (OutputParser.parse_blocks, CodeParser).        *)
(*                                                                         *)
(* Text is modelled as a sequence of one-character strings, so that        *)
(* split, strip, splitlines and join are computed as Python computes them. *)
(***************************************************************************)
EXTENDS Integers, Sequences, FiniteSets, TLC

\* ------------------------------------------------------------------ bounds
MaxUpstream == 2    \* longest changed-file list of the upstream store
MaxDerived == 1     \* longest changed-file list of the derived store
MaxLen == 4         \* longest text given to parse_blocks, in characters
MaxPieces == 6      \* longest text given to parse_code, in pieces

\* ------------------------------------------------------------ text helpers
NL == "\n"
Whitespace == {" ", NL}

RECURSIVE IndexOf(_, _, _)
\* str.find(c, i) for a one-character c: the first index >= i holding c, 0 if none
IndexOf(s, c, i) ==
    IF i > Len(s) THEN 0
    ELSE IF s[i] = c THEN i
    ELSE IndexOf(s, c, i + 1)

RECURSIVE SplitChar(_, _)
\* str.split(c) for a one-character separator
SplitChar(s, c) ==
    LET i == IndexOf(s, c, 1)
    IN  IF i = 0 THEN <<s>>
        ELSE <<SubSeq(s, 1, i - 1)>> \o SplitChar(SubSeq(s, i + 1, Len(s)), c)

\* str.splitlines(): split at line breaks, without a trailing empty piece
SplitLines(s) ==
    LET parts == SplitChar(s, NL)
    IN  IF parts[Len(parts)] = <<>> THEN SubSeq(parts, 1, Len(parts) - 1)
        ELSE parts

RECURSIVE Join(_, _)
\* sep.join(items)
Join(items, sep) ==
    IF Len(items) = 0 THEN <<>>
    ELSE IF Len(items) = 1 THEN items[1]
    ELSE items[1] \o sep \o Join(Tail(items), sep)

\* the orders in which iterating a Python set may yield its members
Orderings(S) ==
    {q \in [1..Cardinality(S) -> S] : \A i, j \in 1..Cardinality(S) : i # j => q[i] # q[j]}

Range(q) == {q[i] : i \in 1..Len(q)}

SeqsUpTo(S, n) == UNION {[1..k -> S] : k \in 0..n}

NoDuplicates(q) == \A i, j \in 1..Len(q) : i # j => q[i] # q[j]

\* ------------------------------------------------------------ constants
SYSTEM_DESIGN_FILE_REPO == "docs/system_design"
TASK_FILE_REPO == "docs/tasks"

Files == {"a.json", "b.json"}

\* the content of the upstream (system design) document of each filename
DesignContent(f) == "design:" \o f

\* what the generation callback (PM_NODE.fill) may answer
GenContents == {"tasks1", "tasks2"}
\* the derived content a store may hold before the first run
OldContent == "tasks0"

\* json.loads(content).get("Required Python third-party packages", set()), as a set
Packages(content) ==
    CASE content = "tasks0" -> {<<"a">>}
      [] content = "tasks1" -> {<<"a">>, <<"b">>}
      [] content = "tasks2" -> {<<>>, <<"b">>}
      [] OTHER -> {}

\* the aggregation file's content before the first run (absent, or text)
InitialRequirements == {{}, {<<"a", NL, NL, "a">>}}

\* ------------------------------------------------------------------ state
VARIABLES
    changed_system_designs, \* upstream store: changed_files
    changed_tasks,          \* derived store: changed_files
    designs,                \* upstream store: filenames that have a document
    tasks_store,            \* derived store: filename -> {} or {[content, dependencies]}
    requirements,           \* aggregation file: {} (absent) or {text}
    merge_mode,             \* "legacy": the merge callback answers its legacy section
    pc, phase, idx,         \* position of run
    runs,                   \* calls of run so far: "none", "first", "second"
    filename, system_design_doc, task_doc, \* locals of _update_tasks
    change_files,           \* Documents(): filename -> {} or {doc}
    error,                  \* what run raised
    invoked, had_task,      \* the callback invoked for the current filename; task_doc at load
    order,                  \* filenames that entered _update_tasks in this run
    saved,                  \* arguments of the last tasks_file_repo.save of this run
    tasks_at_load,          \* derived store when the current filename was loaded
    agg,                    \* last _update_requirements: before, items, after
    pdf_failed,             \* filenames whose export write failed in this run
    finished,               \* per finished run: outcome and derived store
    req_start,              \* non-empty lines of the aggregation file when this run began
    entries,                \* non-empty package entries of the documents aggregated in this run
    p_pc, p_text, p_block, p_lang, \* a parser call: position and arguments
    p_result                \* what the parser call returned or raised

vars == <<changed_system_designs, changed_tasks, designs, tasks_store, requirements,
          merge_mode, pc, phase, idx, runs, filename, system_design_doc,
          task_doc, change_files, error, invoked, had_task, order, saved,
          tasks_at_load, agg, pdf_failed, finished, req_start, entries,
          p_pc, p_text, p_block, p_lang, p_result>>

parserVars == <<p_pc, p_text, p_block, p_lang, p_result>>

storeVars == <<changed_system_designs, changed_tasks, designs, merge_mode>>

aggHistory == <<req_start, entries>>

Document(root, f, c) == [root_path |-> root, filename |-> f, content |-> c]

\* Document.root_relative_path: the document's identity (root_path, filename)
RootRelativePath(doc) == <<doc.root_path, doc.filename>>

\* system_design_file_repo.get(filename)
GetDesign(f) ==
    IF f \in designs THEN {Document(SYSTEM_DESIGN_FILE_REPO, f, DesignContent(f))} ELSE {}

\* tasks_file_repo.get(filename)
GetTask(f) ==
    IF tasks_store[f] = {} THEN {}
    ELSE {Document(TASK_FILE_REPO, f, (CHOOSE d \in tasks_store[f] : TRUE).content)}

The(S) == CHOOSE x \in S : TRUE

\* a store's changed_files: an ordered sequence of filenames, which the store
\* does not deduplicate
ChangedFiles(longest) == SeqsUpTo(Files, longest)

NonEmpty(S) == {l \in S : l # <<>>}

\* the non-empty lines of the aggregation file ({} when the file is absent)
EntryLines(file) ==
    IF file = {} THEN {} ELSE NonEmpty(Range(SplitLines(The(file))))

\* no parser call is under way
ParserIdle ==
    /\ p_pc = "idle" /\ p_text = <<>> /\ p_block = <<>> /\ p_lang = <<>>
    /\ p_result = [raised |-> FALSE, blocks |-> <<>>, code |-> <<>>]

Init ==
    /\ ParserIdle
    /\ changed_system_designs \in ChangedFiles(MaxUpstream)
    /\ changed_tasks \in ChangedFiles(MaxDerived)
    /\ designs \in SUBSET Files
    /\ tasks_store \in [Files -> {{}, {[content |-> OldContent, dependencies |-> {}]}}]
    /\ requirements \in InitialRequirements
    /\ merge_mode \in {"legacy", "free"}
    /\ pc = "idle" /\ phase = 1 /\ idx = 1 /\ runs = "none"
    /\ filename = "" /\ system_design_doc = {} /\ task_doc = {}
    /\ change_files = [f \in Files |-> {}]
    /\ error = "none" /\ invoked = "none" /\ had_task = FALSE
    /\ order = <<>> /\ saved = {} /\ tasks_at_load = tasks_store
    /\ agg = {} /\ pdf_failed = {} /\ finished = <<>>
    /\ req_start = EntryLines(requirements) /\ entries = {}

\* ------------------------------------------------- WriteTasks.run, the loops
\* run is called (again): lines 46-51
Run ==
    /\ pc \in {"idle", "done", "raised"}
    /\ runs # "second"
    /\ runs' = IF runs = "none" THEN "first" ELSE "second"
    /\ pc' = "loop" /\ phase' = 1 /\ idx' = 1
    /\ change_files' = [f \in Files |-> {}]
    /\ error' = "none" /\ invoked' = "none" /\ had_task' = FALSE
    /\ order' = <<>> /\ saved' = {} /\ pdf_failed' = {}
    /\ filename' = "" /\ system_design_doc' = {} /\ task_doc' = {}
    /\ tasks_at_load' = tasks_store
    /\ req_start' = EntryLines(requirements) /\ entries' = {}
    /\ UNCHANGED <<parserVars, storeVars, tasks_store, requirements, agg, finished>>

\* _update_tasks is entered for f and loads both documents: lines 76-77
Load(f) ==
    /\ filename' = f
    /\ system_design_doc' = GetDesign(f)
    /\ task_doc' = GetTask(f)
    /\ had_task' = (GetTask(f) # {})
    /\ invoked' = "none"
    /\ order' = Append(order, f)
    /\ tasks_at_load' = tasks_store
    /\ pc' = "loaded"
    /\ UNCHANGED <<parserVars, storeVars, aggHistory, tasks_store, requirements, phase, idx, runs,
                   change_files, error, saved, agg, pdf_failed, finished>>

\* the first loop: lines 54-57
NextSystemDesign ==
    /\ pc = "loop" /\ phase = 1
    /\ idx <= Len(changed_system_designs)
    /\ Load(changed_system_designs[idx])

\* the first loop is exhausted
EndSystemDesigns ==
    /\ pc = "loop" /\ phase = 1
    /\ idx > Len(changed_system_designs)
    /\ phase' = 2 /\ idx' = 1
    /\ UNCHANGED <<parserVars, storeVars, aggHistory, tasks_store, requirements, pc, runs, filename,
                   system_design_doc, task_doc, change_files, error, invoked, had_task,
                   order, saved, tasks_at_load, agg, pdf_failed, finished>>

\* the second loop without its check
NeverSkips(f) == FALSE

\* whether the second loop skips the filename: lines 62-63
AlreadyChanged(f) == change_files[f] # {}

\* the second loop: lines 61-66
NextTask ==
    /\ pc = "loop" /\ phase = 2
    /\ idx <= Len(changed_tasks)
    /\ IF AlreadyChanged(changed_tasks[idx])
       THEN /\ idx' = idx + 1
            /\ UNCHANGED <<parserVars, storeVars, aggHistory, tasks_store, requirements, pc, phase,
                           runs, filename, system_design_doc, task_doc, change_files,
                           error, invoked, had_task, order, saved, tasks_at_load, agg,
                           pdf_failed, finished>>
       ELSE Load(changed_tasks[idx])

\* run returns: lines 69-73
Return ==
    /\ pc = "loop" /\ phase = 2
    /\ idx > Len(changed_tasks)
    /\ pc' = "done"
    /\ finished' = Append(finished, [outcome |-> "done", tasks |-> tasks_store])
    /\ UNCHANGED <<parserVars, storeVars, aggHistory, tasks_store, requirements, phase, idx, runs,
                   filename, system_design_doc, task_doc, change_files, error, invoked,
                   had_task, order, saved, tasks_at_load, agg, pdf_failed>>

\* a handler in the loop that goes on with the next filename
Swallow(e) == [pc |-> "loop", idx |-> idx + 1, error |-> e]

\* an exception leaves _update_tasks and run (neither has a handler): lines 55, 64
Propagate(e) == [pc |-> "raised", idx |-> idx, error |-> e]

Raise(e) ==
    /\ pc' = Propagate(e).pc
    /\ idx' = Propagate(e).idx
    /\ error' = Propagate(e).error
    /\ finished' = IF Propagate(e).pc = "raised"
                   THEN Append(finished, [outcome |-> "raised", tasks |-> tasks_store])
                   ELSE finished
    /\ UNCHANGED <<parserVars, storeVars, aggHistory, tasks_store, requirements, phase, runs, filename,
                   system_design_doc, task_doc, change_files, had_task, order, saved,
                   tasks_at_load, agg, pdf_failed>>

\* ------------------------------------------------------------ _update_tasks
\* the template filled with its two arguments exchanged
SwappedTemplate(context, old_tasks) == [legacy |-> context, new |-> old_tasks]

\* NEW_REQ_TEMPLATE.format(context=..., old_tasks=...): lines 32-38, 100
NewReqTemplate(context, old_tasks) == [legacy |-> old_tasks, new |-> context]

\* what the merge callback may answer for a context
MergeAnswers(context) ==
    IF merge_mode = "legacy" THEN {context.legacy} ELSE GenContents

\* always takes the else branch of line 78
NeverMerges(doc) == FALSE

\* if task_doc: line 78
DerivedExists(doc) == doc # {}

\* a derived document exists: _merge, lines 78-79 and 99-103
Merge ==
    /\ pc = "loaded"
    /\ DerivedExists(task_doc)
    /\ invoked' = "merge"
    /\ IF system_design_doc = {}
       THEN \* system_design_doc.content of None: line 100
            /\ Raise("missing_upstream")
            /\ UNCHANGED <<task_doc>>
       ELSE \/ \* PM_NODE.fill fails: line 101
               /\ Raise("callback")
               /\ UNCHANGED <<task_doc>>
            \/ \E c \in MergeAnswers(NewReqTemplate(The(system_design_doc).content,
                                                    The(task_doc).content)) :
                 /\ task_doc' = {[The(task_doc) EXCEPT !.content = c]}
                 /\ pc' = "save"
                 /\ UNCHANGED <<parserVars, storeVars, aggHistory, tasks_store, requirements, phase,
                                idx, runs, filename, system_design_doc, change_files,
                                error, had_task, order, saved, tasks_at_load, agg,
                                pdf_failed, finished>>

\* no derived document: _run_new_tasks, lines 80-84 and 92-97
NewTasks ==
    /\ pc = "loaded"
    /\ ~DerivedExists(task_doc)
    /\ IF system_design_doc = {}
       THEN \* system_design_doc.content of None, before the call: line 81
            /\ Raise("missing_upstream")
            /\ UNCHANGED <<task_doc, invoked>>
       ELSE /\ invoked' = "generate"
            /\ \/ \* PM_NODE.fill fails: line 93
                  /\ Raise("callback")
                  /\ UNCHANGED <<task_doc>>
               \/ \E c \in GenContents :
                    /\ task_doc' = {Document(TASK_FILE_REPO, filename, c)}
                    /\ pc' = "save"
                    /\ UNCHANGED <<parserVars, storeVars, aggHistory, tasks_store, requirements, phase, idx, runs, filename, system_design_doc,
                                   change_files, error, had_task, order, saved,
                                   tasks_at_load, agg, pdf_failed, finished>>

\* the derived document's own path recorded as its dependency
OwnPathDependencies == {RootRelativePath(The(task_doc))}

\* the dependencies given to tasks_file_repo.save: line 86
SaveDependencies == {RootRelativePath(The(system_design_doc))}

\* tasks_file_repo.save: lines 85-87
Save ==
    /\ pc = "save"
    /\ tasks_store' = [tasks_store EXCEPT ![filename] =
                         {[content |-> The(task_doc).content,
                           dependencies |-> SaveDependencies]}]
    /\ saved' = {[filename |-> filename, content |-> The(task_doc).content,
                  dependencies |-> SaveDependencies]}
    /\ pc' = "requirements"
    /\ UNCHANGED <<parserVars, storeVars, aggHistory, requirements, phase, idx, runs, filename,
                   system_design_doc, task_doc, change_files, error, invoked, had_task,
                   order, tasks_at_load, agg, pdf_failed, finished>>

\* an update that writes the document's packages over the file
OnlyNewEntries(doc, existing) == Packages(doc.content)

\* the entries _update_requirements joins: lines 107-117
RequirementEntries(doc, existing) ==
    Packages(doc.content) \cup {l \in Range(SplitLines(existing)) : l # <<>>}

\* _update_requirements: lines 105-118
UpdateRequirements ==
    /\ pc = "requirements"
    /\ LET existing == IF requirements = {} THEN <<>> ELSE The(requirements)
           packages == RequirementEntries(The(task_doc), existing)
       IN  \E q \in Orderings(packages) :
             /\ requirements' = {Join(q, <<NL>>)}
             /\ agg' = {[absent |-> requirements = {}, before |-> existing,
                         items |-> Packages(The(task_doc).content),
                         after |-> Join(q, <<NL>>)]}
    /\ entries' = entries \cup NonEmpty(Packages(The(task_doc).content))
    /\ pc' = "pdf"
    /\ UNCHANGED <<parserVars, storeVars, req_start, tasks_store, phase, idx, runs, filename,
                   system_design_doc, task_doc, change_files, error, invoked, had_task,
                   order, saved, tasks_at_load, pdf_failed, finished>>

\* FileRepository.save_as on a failed write: logged, not raised
save_as_raises(written) == FALSE

\* a _save_pdf that raises when the write did not happen
save_pdf_raises_on_failure(written) == ~written

\* _save_pdf awaits save_as and handles nothing: lines 120-122
save_pdf_raises(written) == save_as_raises(written)

\* _save_pdf, then the return to run and change_files.docs[filename] = task_doc:
\* lines 89-90, 58 and 67; the locals of _update_tasks end with the call
SavePdf ==
    /\ pc = "pdf"
    /\ \E written \in BOOLEAN :
         /\ IF save_pdf_raises(written)
            THEN /\ pc' = "raised" /\ error' = "export"
                 /\ finished' = Append(finished,
                                       [outcome |-> "raised", tasks |-> tasks_store])
                 /\ UNCHANGED <<change_files, idx, pdf_failed>>
            ELSE /\ pc' = "loop" /\ idx' = idx + 1
                 /\ change_files' = [change_files EXCEPT ![filename] = task_doc]
                 /\ pdf_failed' = IF written THEN pdf_failed ELSE pdf_failed \cup {filename}
                 /\ UNCHANGED <<error, finished>>
    /\ filename' = "" /\ system_design_doc' = {} /\ task_doc' = {}
    /\ invoked' = "none" /\ had_task' = FALSE /\ saved' = {} /\ agg' = {}
    /\ tasks_at_load' = tasks_store
    /\ UNCHANGED <<parserVars, storeVars, aggHistory, tasks_store, requirements, phase, runs, order>>

Next ==
    \/ Run
    \/ NextSystemDesign
    \/ EndSystemDesigns
    \/ NextTask
    \/ Return
    \/ Merge
    \/ NewTasks
    \/ Save
    \/ UpdateRequirements
    \/ SavePdf

Spec == Init /\ [][Next]_vars

\* ===================================================== common.py: parsers
pipelineVars == <<changed_system_designs, changed_tasks, designs, tasks_store,
                  requirements, merge_mode, pc, phase, idx, runs, filename,
                  system_design_doc, task_doc, change_files, error, invoked, had_task,
                  order, saved, tasks_at_load, agg, pdf_failed, finished,
                  req_start, entries>>

\* the pipeline before any run, over empty stores
PipelineIdle ==
    /\ changed_system_designs = <<>> /\ changed_tasks = <<>> /\ designs = {}
    /\ tasks_store = [f \in Files |-> {}] /\ requirements = {}
    /\ merge_mode = "legacy"
    /\ pc = "idle" /\ phase = 1 /\ idx = 1 /\ runs = "none"
    /\ filename = "" /\ system_design_doc = {} /\ task_doc = {}
    /\ change_files = [f \in Files |-> {}]
    /\ error = "none" /\ invoked = "none" /\ had_task = FALSE
    /\ order = <<>> /\ saved = {} /\ tasks_at_load = [f \in Files |-> {}]
    /\ agg = {} /\ pdf_failed = {} /\ finished = <<>>
    /\ req_start = EntryLines(requirements) /\ entries = {}

HeadingMarker == <<"#", "#">>
\* the backtick character, written as a tilde
BackTick == "~"
Fence == <<BackTick, BackTick, BackTick>>

\* whether pat occurs in s at index i
OccursAt(s, pat, i) ==
    /\ i >= 1 /\ i + Len(pat) - 1 <= Len(s)
    /\ SubSeq(s, i, i + Len(pat) - 1) = pat

RECURSIVE FindSub(_, _, _)
\* str.find(pat, from): the first index >= from where pat occurs, 0 if none
FindSub(s, pat, from) ==
    IF from + Len(pat) - 1 > Len(s) THEN 0
    ELSE IF OccursAt(s, pat, from) THEN from
    ELSE FindSub(s, pat, from + 1)

\* Python's in for strings: pat in s
Contains(s, pat) == FindSub(s, pat, 1) # 0

RECURSIVE SplitStr(_, _)
\* str.split(sep) for a non-empty separator
SplitStr(s, sep) ==
    LET i == FindSub(s, sep, 1)
    IN  IF i = 0 THEN <<s>>
        ELSE <<SubSeq(s, 1, i - 1)>> \o SplitStr(SubSeq(s, i + Len(sep), Len(s)), sep)

RECURSIVE LStrip(_)
LStrip(s) ==
    IF s # <<>> /\ Head(s) \in Whitespace THEN LStrip(Tail(s)) ELSE s

RECURSIVE RStrip(_)
RStrip(s) ==
    IF s # <<>> /\ s[Len(s)] \in Whitespace THEN RStrip(SubSeq(s, 1, Len(s) - 1)) ELSE s

\* str.strip()
Strip(s) == RStrip(LStrip(s))

\* str.split("\n", 1) of a text that holds a line break: <<first line, the rest>>
SplitFirstLine(s) ==
    LET i == IndexOf(s, NL, 1)
    IN  <<SubSeq(s, 1, i - 1), SubSeq(s, i + 1, Len(s))>>

\* block_dict[k] = v: a present key keeps its place
DictPut(d, k, v) ==
    IF \E i \in 1..Len(d) : d[i][1] = k
    THEN [i \in 1..Len(d) |-> IF d[i][1] = k THEN <<k, v>> ELSE d[i]]
    ELSE Append(d, <<k, v>>)

RECURSIVE CodeParserBlocks(_, _)
\* the loop of CodeParser.parse_blocks: lines 253-263
CodeParserBlocks(blocks, block_dict) ==
    IF blocks = <<>> THEN block_dict
    ELSE LET block == Head(blocks)
         IN  IF Strip(block) = <<>> THEN CodeParserBlocks(Tail(blocks), block_dict)
             ELSE IF IndexOf(block, NL, 1) = 0
                  THEN CodeParserBlocks(Tail(blocks), DictPut(block_dict, Strip(block), <<>>))
                  ELSE CodeParserBlocks(Tail(blocks),
                                        DictPut(block_dict,
                                                Strip(SplitFirstLine(block)[1]),
                                                Strip(SplitFirstLine(block)[2])))

\* a segmenter that drops the text before the first heading marker
CodeParser_parse_blocks_after_marker(text) ==
    CodeParserBlocks(Tail(SplitStr(text, HeadingMarker)), <<>>)

\* CodeParser.parse_blocks: lines 244-265
CodeParser_parse_blocks(text) ==
    CodeParserBlocks(SplitStr(text, HeadingMarker), <<>>)

\* whether the body of the loop of OutputParser.parse_blocks raises for the block:
\* the unpacking of line 59 (no line break), block_title[-1] of line 61 (empty title)
OutputParserBlockRaises(block) ==
    /\ Strip(block) # <<>>
    /\ \/ IndexOf(block, NL, 1) = 0
       \/ SplitFirstLine(block)[1] = <<>>

\* lines 61-62: one trailing ":" is removed, before the title is stripped
DropColon(block_title) ==
    IF block_title[Len(block_title)] = ":"
    THEN SubSeq(block_title, 1, Len(block_title) - 1)
    ELSE block_title

RECURSIVE OutputParserBlocks(_, _)
\* the loop of OutputParser.parse_blocks: lines 55-63
OutputParserBlocks(blocks, block_dict) ==
    IF blocks = <<>> THEN [raised |-> FALSE, blocks |-> block_dict]
    ELSE LET block == Head(blocks)
         IN  IF Strip(block) = <<>> THEN OutputParserBlocks(Tail(blocks), block_dict)
             ELSE IF OutputParserBlockRaises(block)
                  THEN [raised |-> TRUE, blocks |-> <<>>]
                  ELSE OutputParserBlocks(Tail(blocks),
                                          DictPut(block_dict,
                                                  Strip(DropColon(SplitFirstLine(block)[1])),
                                                  Strip(SplitFirstLine(block)[2])))

\* OutputParser.parse_blocks: lines 46-65
OutputParser_parse_blocks(text) ==
    OutputParserBlocks(SplitStr(text, HeadingMarker), <<>>)

\* CodeParser.parse_block: lines 236-242
CodeParser_parse_block(block, text) ==
    LET blocks == CodeParser_parse_blocks(text)
        hits == {i \in 1..Len(blocks) : Contains(blocks[i][1], block)}
    IN  IF hits = {} THEN <<>>
        ELSE blocks[CHOOSE i \in hits : \A j \in hits : i <= j][2]

RECURSIVE FirstWhitespace(_, _)
\* the first index >= i of s holding whitespace, 0 if none
FirstWhitespace(s, i) ==
    IF i > Len(s) THEN 0
    ELSE IF s[i] \in Whitespace THEN i
    ELSE FirstWhitespace(s, i + 1)

RECURSIVE FirstNonWhitespace(_, _)
\* the first index >= i of s not holding whitespace, Len(s) + 1 if none
FirstNonWhitespace(s, i) ==
    IF i > Len(s) THEN Len(s) + 1
    ELSE IF s[i] \notin Whitespace THEN i
    ELSE FirstNonWhitespace(s, i + 1)

\* re.search(pattern, text, re.DOTALL) for the pattern of line 271: the fence and
\* lang, a lazy any-run, a whitespace run, the lazy group, the fence.
\* The leftmost match starts at the first fence with lang; its lazy any-run ends at the
\* first whitespace after it, the whitespace run is taken whole, and the lazy group ends
\* at the first closing fence at or after the end of the run. A later start
\* matches only if the first one does. {} when nothing matches, else {group(1)}.
FenceSearch(text, lang) ==
    LET open == FindSub(text, Fence \o lang, 1)
        ws == IF open = 0 THEN 0 ELSE FirstWhitespace(text, open + Len(Fence \o lang))
        start == IF ws = 0 THEN 0 ELSE FirstNonWhitespace(text, ws)
        close == IF ws = 0 THEN 0 ELSE FindSub(text, Fence, start)
    IN  IF close = 0 THEN {} ELSE {SubSeq(text, start, close - 1)}

\* CodeParser.parse_code: lines 267-280
CodeParser_parse_code(block, text, lang) ==
    LET searched == IF block # <<>> THEN CodeParser_parse_block(block, text) ELSE text
        match == FenceSearch(searched, lang)
    IN  IF match # {} THEN The(match) ELSE searched

\* ---------------------------------------------- the calls of parse_blocks
BlockAlphabet == {"#", NL, " ", "T", ":"}

InitBlocks ==
    /\ PipelineIdle
    /\ p_pc = "input"
    /\ p_text \in SeqsUpTo(BlockAlphabet, MaxLen)
    /\ p_block = <<>> /\ p_lang = <<>>
    /\ p_result = [raised |-> FALSE, blocks |-> <<>>, code |-> <<>>]

CallCodeParserParseBlocks ==
    /\ p_pc = "input"
    /\ p_pc' = "CodeParser.parse_blocks"
    /\ p_result' = [raised |-> FALSE, blocks |-> CodeParser_parse_blocks(p_text),
                    code |-> <<>>]
    /\ UNCHANGED <<pipelineVars, p_text, p_block, p_lang>>

CallOutputParserParseBlocks ==
    /\ p_pc = "input"
    /\ p_pc' = "OutputParser.parse_blocks"
    /\ p_result' = [raised |-> OutputParser_parse_blocks(p_text).raised,
                    blocks |-> OutputParser_parse_blocks(p_text).blocks,
                    code |-> <<>>]
    /\ UNCHANGED <<pipelineVars, p_text, p_block, p_lang>>

NextBlocks ==
    \/ CallCodeParserParseBlocks
    \/ CallOutputParserParseBlocks

SpecBlocks == InitBlocks /\ [][NextBlocks]_vars

\* ------------------------------------------------- the calls of parse_code
RECURSIVE Concat(_)
Concat(pieces) ==
    IF pieces = <<>> THEN <<>> ELSE Head(pieces) \o Concat(Tail(pieces))

CodePieces == {HeadingMarker, Fence, <<NL>>, <<"T">>, <<"x">>}

InitCode ==
    /\ PipelineIdle
    /\ p_pc = "input"
    /\ p_text \in {Concat(q) : q \in SeqsUpTo(CodePieces, MaxPieces)}
    /\ p_block \in {<<>>, <<"T">>, <<"U">>}
    /\ p_lang \in {<<>>, <<"x">>}
    /\ p_result = [raised |-> FALSE, blocks |-> <<>>, code |-> <<>>]

CallParseCode ==
    /\ p_pc = "input"
    /\ p_pc' = "CodeParser.parse_code"
    /\ p_result' = [raised |-> FALSE, blocks |-> <<>>,
                    code |-> CodeParser_parse_code(p_block, p_text, p_lang)]
    /\ UNCHANGED <<pipelineVars, p_text, p_block, p_lang>>

NextCode == CallParseCode

SpecCode == InitCode /\ [][NextCode]_vars

\* ================================================================ claims
Contents(docs) == {d.content : d \in docs}

DesignPath(f) == <<SYSTEM_DESIGN_FILE_REPO, f>>

\* the generate-or-merge decision of the current filename has been taken
Decided == pc \in {"save", "requirements", "pdf"} \/ (pc = "raised" /\ error = "callback")

\* C1: for every filename whose documents were loaded, generate (_run_new_tasks) is
\* invoked iff the derived store held no document for it at load time and merge
\* (_merge) iff it did; generate is never invoked for a filename whose derived
\* document exists, and exactly one of the two is invoked.
C1_GenerateIffNoDerived ==
    /\ invoked = "generate" => tasks_at_load[filename] = {}
    /\ invoked = "merge" => tasks_at_load[filename] # {}
    /\ Decided => /\ invoked \in {"generate", "merge"}
                  /\ invoked = "generate" <=> tasks_at_load[filename] = {}
                  /\ invoked = "merge" <=> tasks_at_load[filename] # {}
    /\ (pc = "raised" /\ error = "missing_upstream") =>
           (invoked = "merge" <=> tasks_at_load[filename] # {})

C1_Witness ==
    /\ pc = "save" /\ invoked = "merge" /\ runs = "second"
    /\ The(tasks_at_load[filename]).content \in GenContents

RECURSIVE Dedupe(_, _)
\* the members of q not in seen, each at its first place
Dedupe(q, seen) ==
    IF q = <<>> THEN <<>>
    ELSE IF Head(q) \in seen THEN Dedupe(Tail(q), seen)
    ELSE <<Head(q)>> \o Dedupe(Tail(q), seen \cup {Head(q)})

\* the processing queue of one run: the upstream list, then the derived list
\* without the filenames already met
Queue == changed_system_designs \o Dedupe(changed_tasks, Range(changed_system_designs))

IsPrefix(q, r) == Len(q) <= Len(r) /\ q = SubSeq(r, 1, Len(q))

C3_SaveRecordsUpstreamPath ==
    /\ pc \in {"requirements", "pdf"} =>
         /\ saved = {[filename |-> filename, content |-> The(task_doc).content,
                      dependencies |-> {DesignPath(filename)}]}
         /\ tasks_store[filename] = {[content |-> The(task_doc).content,
                                      dependencies |-> {DesignPath(filename)}]}
         /\ filename \in designs
    /\ \A f \in Files :
         (change_files[f] # {} /\ ~(f = filename /\ pc \in {"requirements", "pdf"})) =>
             tasks_store[f] = {[content |-> The(change_files[f]).content,
                                dependencies |-> {DesignPath(f)}]}

C3_Witness ==
    /\ pc = "loop" /\ phase = 2
    /\ \E f \in Files : change_files[f] # {} /\ The(change_files[f]).content \in GenContents

\* C4: the aggregation update persists newline-joined text whose set of lines
\* is the union of the non-empty lines of the existing file and the non-empty
\* new items of the document, with no duplicate line.
C4_LinesAreUnionOfNonEmpty ==
    agg # {} =>
        LET r == The(agg)
        IN  /\ Range(SplitLines(r.after)) =
                   NonEmpty(Range(SplitLines(r.before))) \cup NonEmpty(r.items)
            /\ NoDuplicates(SplitLines(r.after))

\* C5: a filename whose upstream document is absent does not abort the run.
C5_MissingUpstreamDoesNotAbortRun ==
    ~(pc = "raised" /\ error = "missing_upstream")

Last(q) == q[Len(q)]

\* C6: when the generate or merge callback fails, the failure leaves run: the
\* filename is not saved, the derived store and the aggregation file are as
\* they were when the filename was loaded, and no step of this run follows.
C6_CallbackFailureAbortsBatch ==
    /\ [](error = "callback" =>
            /\ pc = "raised"
            /\ tasks_store = tasks_at_load
            /\ change_files[filename] = {} \/ filename \in Range(SubSeq(order, 1, Len(order) - 1))
            /\ Last(finished) = [outcome |-> "raised", tasks |-> tasks_at_load])
    /\ [][error = "callback" => runs' # runs]_vars

C6_Witness ==
    /\ pc = "raised" /\ error = "callback"
    /\ phase = 1 /\ Len(order) = 2 /\ order[1] # order[2]
    /\ tasks_store[order[1]] # {}
    /\ changed_tasks = <<order[2]>>

QueueFiles == Range(changed_system_designs) \cup Range(changed_tasks)

C8_SecondRunKeepsContent ==
    (merge_mode = "legacy" /\ runs = "second" /\ pc = "done"
        /\ finished[1].outcome = "done") =>
        \A f \in Files : Contents(tasks_store[f]) = Contents(finished[1].tasks[f])

C8_Witness ==
    /\ merge_mode = "legacy" /\ runs = "second" /\ pc = "done"
    /\ finished[1].outcome = "done"
    /\ Len(order) = 2
    /\ \E f \in Range(order) : Contents(tasks_store[f]) \subseteq GenContents

\* C11: the aggregation file is rewritten only by the update of the filename
\* being processed, from the content it holds at that moment, and no entry is
\* lost: its lines always contain every non-empty line it held when the run
\* began and every non-empty package entry of every document aggregated in
\* the run, and a step never removes a non-empty line.
C11_NoLostAggregationEntries ==
    /\ [](/\ req_start \subseteq EntryLines(requirements)
          /\ entries \subseteq EntryLines(requirements)
          /\ \A f \in Files : change_files[f] # {} =>
                 NonEmpty(Packages(The(change_files[f]).content))
                     \subseteq EntryLines(requirements)
          /\ agg # {} => (pc = "pdf" /\ requirements = {The(agg).after}))
    /\ [][/\ EntryLines(requirements) \subseteq EntryLines(requirements')
          /\ requirements' # requirements =>
                 /\ pc = "requirements" /\ pc' = "pdf"
                 /\ agg' # {}
                 /\ The(agg').before = IF requirements = {} THEN <<>> ELSE The(requirements)]_vars

C11_Witness ==
    /\ pc = "done" /\ Len(order) = 2 /\ order[1] # order[2]
    /\ req_start = {<<"a">>}
    /\ The(change_files[order[1]]).content = "tasks2"
    /\ The(change_files[order[2]]).content = "tasks1"
    /\ EntryLines(requirements) = {<<"a">>, <<"b">>}

\* ------------------------------------------------------------ parser claims
NoMarker(text) == ~Contains(text, HeadingMarker)

\* C9 (as stated): for every text without the heading marker, parse_blocks
\* returns the empty mapping and raises nothing.
C9_NoMarkerGivesEmptyMapping ==
    (p_pc \in {"CodeParser.parse_blocks", "OutputParser.parse_blocks"} /\ NoMarker(p_text)) =>
        (~p_result.raised /\ p_result.blocks = <<>>)

\* the one block of a text without marker: its first line and the rest, stripped
WholeTextBlock(text) ==
    IF IndexOf(text, NL, 1) = 0 THEN <<Strip(text), <<>>>>
    ELSE <<Strip(SplitFirstLine(text)[1]), Strip(SplitFirstLine(text)[2])>>

\* C9 (amended): for every text without the heading marker, CodeParser.parse_blocks
\* raises nothing and returns the empty mapping exactly when the text is blank;
\* otherwise the whole text is one block, titled by its stripped first line.
\* OutputParser.parse_blocks does the same, less one trailing ":" of the title,
\* but raises when the non-blank text has no line break or an empty first line.
C9_NoMarkerGivesWholeTextBlock ==
    /\ (p_pc = "CodeParser.parse_blocks" /\ NoMarker(p_text)) =>
         /\ ~p_result.raised
         /\ p_result.blocks = IF Strip(p_text) = <<>> THEN <<>>
                              ELSE <<WholeTextBlock(p_text)>>
    /\ (p_pc = "OutputParser.parse_blocks" /\ NoMarker(p_text)) =>
         /\ p_result.raised <=>
              (Strip(p_text) # <<>> /\ (IndexOf(p_text, NL, 1) = 0 \/ p_text[1] = NL))
         /\ Strip(p_text) = <<>> => p_result.blocks = <<>>
         /\ (Strip(p_text) # <<>> /\ ~p_result.raised) =>
              /\ Len(p_result.blocks) = 1
              /\ p_result.blocks[1][2] = WholeTextBlock(p_text)[2]
              /\ LET first == SplitFirstLine(p_text)[1]
                 IN  p_result.blocks[1][1] =
                         IF first[Len(first)] = ":"
                         THEN Strip(SubSeq(first, 1, Len(first) - 1))
                         ELSE Strip(first)

C9_Witness ==
    /\ p_pc = "CodeParser.parse_blocks" /\ NoMarker(p_text)
    /\ p_text = <<"T", ":", NL, "T">>
    /\ p_result.blocks = <<<<<<"T", ":">>, <<"T">>>>>>

\* no title of the text's blocks contains the block title
MatchesNoTitle(block, text) ==
    \A i \in 1..Len(CodeParser_parse_blocks(text)) :
        ~Contains(CodeParser_parse_blocks(text)[i][1], block)

\* C10: parse_code with a block title matching no block searches the full
\* original text: it returns the interior of the first fence of the full text
\* or, when there is none, the full text itself.
C10_UnmatchedTitleFallsBackToFullText ==
    (p_pc = "CodeParser.parse_code" /\ p_block # <<>> /\ MatchesNoTitle(p_block, p_text)) =>
        p_result.code = IF FenceSearch(p_text, p_lang) # {}
                        THEN The(FenceSearch(p_text, p_lang))
                        ELSE p_text

====
